---- MODULE Spec2Model ----
(***************************************************************************)
(* Chunked-recording upload routes of the vapi front-end:                  *)
(*   - the chunk route   (POST ?sessionId=&index=&mimeType=  + body),      *)
(*   - the manifest route (POST {sessionId,totalChunks,...}),              *)
(* both writing to one object store through a per-call getBucket().        *)
(* Strings are sequences of one-character strings so that keys, padding    *)
(* and ordering are computed, not assumed.                                 *)
(***************************************************************************)
EXTENDS Integers, Sequences, FiniteSets, TLC

VARIABLES env, store, now, nCalls, last, probe, inflight, page, health

vars == <<env, store, now, nCalls, last, probe, inflight, page, health>>

None == "None"

(***************************************************************************)
(* Characters and strings                                                  *)
(***************************************************************************)
Digits == <<"0", "1", "2", "3", "4", "5", "6", "7", "8", "9">>

LowerCase == <<"a", "b", "c", "d", "e", "f", "g", "h", "i", "j", "k", "l", "m",
               "n", "o", "p", "q", "r", "s", "t", "u", "v", "w", "x", "y", "z">>

UpperCase == <<"A", "B", "C", "D", "E", "F", "G", "H", "I", "J", "K", "L", "M",
               "N", "O", "P", "Q", "R", "S", "T", "U", "V", "W", "X", "Y", "Z">>

IndexIn(c, seq) == IF \E i \in 1..Len(seq) : seq[i] = c
                   THEN CHOOSE i \in 1..Len(seq) : seq[i] = c
                   ELSE 0

IsDigit(c) == IndexIn(c, Digits) > 0

\* UTF-16 code unit of a character (the ASCII range the routes meet).
Ord(c) ==
    IF IndexIn(c, Digits) > 0 THEN 47 + IndexIn(c, Digits)
    ELSE IF IndexIn(c, UpperCase) > 0 THEN 64 + IndexIn(c, UpperCase)
    ELSE IF IndexIn(c, LowerCase) > 0 THEN 96 + IndexIn(c, LowerCase)
    ELSE CASE c = " " -> 32
           [] c = "!" -> 33
           [] c = "+" -> 43
           [] c = "-" -> 45
           [] c = "." -> 46
           [] c = "/" -> 47
           [] c = "_" -> 95
           [] OTHER   -> 127

\* s.includes(sub)
Includes(s, sub) ==
    \E i \in 0..(Len(s) - Len(sub)) : SubSeq(s, i + 1, i + Len(sub)) = sub

\* Order of two strings by code units (the order of object names in a listing).
RECURSIVE LexLess(_, _)
LexLess(a, b) ==
    IF b = <<>> THEN FALSE
    ELSE IF a = <<>> THEN TRUE
    ELSE IF Ord(Head(a)) # Ord(Head(b)) THEN Ord(Head(a)) < Ord(Head(b))
    ELSE LexLess(Tail(a), Tail(b))

\* s.padStart(width, fill) for a one-character fill
RECURSIVE padStart(_, _, _)
padStart(s, width, fill) ==
    IF Len(s) >= width THEN s ELSE padStart(<<fill>> \o s, width, fill)

\* s.trim(), for the blank the inputs use
RECURSIVE TrimLeft(_)
TrimLeft(s) == IF s # <<>> /\ Head(s) = " " THEN TrimLeft(Tail(s)) ELSE s

RECURSIVE TrimRight(_)
TrimRight(s) ==
    IF s # <<>> /\ s[Len(s)] = " " THEN TrimRight(SubSeq(s, 1, Len(s) - 1)) ELSE s

Trim(s) == TrimRight(TrimLeft(s))

(***************************************************************************)
(* Numbers: Number(string) and String(number)                              *)
(* A number is NaN, an infinity, or a finite decimal  (-)int.frac  with    *)
(* frac a digit string without trailing zeros.                             *)
(***************************************************************************)
NaN == [kind |-> "nan", neg |-> FALSE, int |-> 0, frac |-> <<>>]

Infinite(n) == [kind |-> "inf", neg |-> n, int |-> 0, frac |-> <<>>]

Finite(n, i, f) == [kind |-> "fin", neg |-> n, int |-> i, frac |-> f]

AllDigits(s) == \A i \in 1..Len(s) : IsDigit(s[i])

RECURSIVE DigitsToNat(_)
DigitsToNat(s) ==
    IF s = <<>> THEN 0
    ELSE 10 * DigitsToNat(SubSeq(s, 1, Len(s) - 1)) + (IndexIn(s[Len(s)], Digits) - 1)

RECURSIVE NatToDigits(_)
NatToDigits(n) ==
    IF n < 10 THEN <<Digits[n + 1]>>
    ELSE NatToDigits(n \div 10) \o <<Digits[(n % 10) + 1]>>

RECURSIVE StripZeros(_)
StripZeros(s) ==
    IF s # <<>> /\ s[Len(s)] = "0" THEN StripZeros(SubSeq(s, 1, Len(s) - 1)) ELSE s

\* StrUnsignedDecimalLiteral without exponent: digits, digits. , .digits , digits.digits
ParseUnsigned(s, n) ==
    IF s = <<"I", "n", "f", "i", "n", "i", "t", "y">> THEN Infinite(n)
    ELSE LET dot == IndexIn(".", s)
             ip  == IF dot = 0 THEN s ELSE SubSeq(s, 1, dot - 1)
             fp  == IF dot = 0 THEN <<>> ELSE SubSeq(s, dot + 1, Len(s))
         IN IF AllDigits(ip) /\ AllDigits(fp) /\ Len(ip) + Len(fp) > 0
            THEN Finite(n, DigitsToNat(ip), StripZeros(fp))
            ELSE NaN

\* Number(str): blank -> 0, optional sign, decimal literal, else NaN.
\* (Exponent and 0x/0o/0b literals are not among the inputs drawn below.)
ToNumber(str) ==
    LET s == Trim(str)
    IN IF s = <<>> THEN Finite(FALSE, 0, <<>>)
       ELSE IF Head(s) = "-" THEN ParseUnsigned(Tail(s), TRUE)
       ELSE IF Head(s) = "+" THEN ParseUnsigned(Tail(s), FALSE)
       ELSE ParseUnsigned(s, FALSE)

IsZero(x) == x.kind = "fin" /\ x.int = 0 /\ x.frac = <<>>

\* Number.isFinite(x)
NumberIsFinite(x) == x.kind = "fin"

\* x < 0   (false for NaN and for -0)
LessThanZero(x) == x.kind # "nan" /\ x.neg /\ ~IsZero(x)

\* Number.isInteger(x)
IsInteger(x) == x.kind = "fin" /\ x.frac = <<>>

\* String(x), for the magnitudes printed without exponent
NumberToString(x) ==
    CASE x.kind = "nan" -> <<"N", "a", "N">>
      [] x.kind = "inf" ->
           (IF x.neg THEN <<"-">> ELSE <<>>) \o <<"I", "n", "f", "i", "n", "i", "t", "y">>
      [] OTHER ->
           (IF x.neg /\ ~IsZero(x) THEN <<"-">> ELSE <<>>)
           \o NatToDigits(x.int)
           \o (IF x.frac = <<>> THEN <<>> ELSE <<".">> \o x.frac)

(***************************************************************************)
(* Request values                                                          *)
(***************************************************************************)
\* A URL query parameter: searchParams.get(name) is null or a string.
Absent == [has |-> FALSE, v |-> <<>>]

Str(s) == [has |-> TRUE, v |-> s]

\* searchParams.get(name) || dflt
ParamOr(p, dflt) == IF p.has /\ p.v # <<>> THEN p.v ELSE dflt

\* A value of a JSON request body.
JUndefined == [t |-> "undefined", s |-> <<>>, n |-> 0]

JString(s) == [t |-> "string", s |-> s, n |-> 0]

JNumber(n) == [t |-> "number", s |-> <<>>, n |-> n]

\* !v is false
Truthy(j) ==
    CASE j.t = "string" -> j.s # <<>>
      [] j.t = "number" -> j.n # 0
      [] OTHER -> FALSE

\* Number(v) of a JSON value
JToNumber(j) ==
    CASE j.t = "string" -> ToNumber(j.s)
      [] j.t = "number" -> Finite(FALSE, j.n, <<>>)
      [] OTHER -> NaN

\* Number(v) || dflt
NumberOr(j, dflt) ==
    LET x == JToNumber(j)
    IN IF x.kind = "nan" \/ IsZero(x) THEN dflt ELSE x

(***************************************************************************)
(* Process environment                                                     *)
(* A credential text is known by what the code asks of it:                 *)
(*   json     starts with '{' and JSON.parse accepts it                    *)
(*   badjson  starts with '{' and JSON.parse throws                        *)
(*   b64json  base64 of a JSON service-account object                      *)
(*   pem      contains 'BEGIN PRIVATE KEY'                                 *)
(*   garbage  none of these                                                *)
(*   none     unset or empty                                               *)
(***************************************************************************)
InlineKinds == {"none", "json", "badjson", "b64json", "garbage"}

KeyKinds == {"none", "json", "badjson", "b64json", "pem", "garbage"}

AltKeyKinds == {"none", "pem", "garbage"}

BucketNames == {"none", "my-bucket"}

AltBucketNames == {"none", "alt-bucket"}

\* text.trim().startsWith('{')
StartsWithBrace(k) == k \in {"json", "badjson"}

\* JSON.parse(text) returns an object
JsonParses(k) == k = "json"

\* JSON.parse(Buffer.from(text, 'base64').toString('utf8')) returns an object
Base64JsonParses(k) == k = "b64json"

\* text.includes('BEGIN PRIVATE KEY')
IncludesPem(k) == k = "pem"

Envs ==
    [ sa          : InlineKinds,    \* GCP_SERVICE_ACCOUNT_KEY || ..._JSON || ..._BASE64
      projGoogle  : BOOLEAN,        \* GOOGLE_CLOUD_PROJECT_ID
      projGcp     : BOOLEAN,        \* GCP_PROJECT_ID
      email       : BOOLEAN,        \* GOOGLE_CLOUD_CLIENT_EMAIL
      gac         : KeyKinds,       \* GOOGLE_APPLICATION_CREDENTIALS
      gcpk        : AltKeyKinds,    \* GOOGLE_CLOUD_PRIVATE_KEY
      bucketGoogle: BucketNames,    \* GOOGLE_CLOUD_BUCKET_NAME
      bucketGcp   : AltBucketNames, \* GCP_BUCKET_NAME
      publicRead  : BOOLEAN,        \* GOOGLE_CLOUD_PUBLIC_READ === 'true'
      adc         : BOOLEAN ]       \* the platform grants ambient credentials

\* a || b on two optional texts
FirstSet(a, b) == IF a # "none" THEN a ELSE b

resolveBucketName(e) ==
    IF e.bucketGoogle # "none" THEN e.bucketGoogle
    ELSE IF e.bucketGcp # "none" THEN e.bucketGcp
    ELSE "vapi_video_recording"

publicBaseUrl(e) == "https://storage.googleapis.com"

(***************************************************************************)
(* getBucket: which credential source the Storage client is built from.    *)
(*   threw  - the function threw before returning a bucket                 *)
(*   source - the branch taken: inline, discrete or ambient                *)
(*   valid  - the client holds credentials the backend accepts             *)
(***************************************************************************)
Resolved(src, ok, e) ==
    [threw |-> FALSE, source |-> src, valid |-> ok, bucket |-> resolveBucketName(e)]

Threw(src, e) ==
    [threw |-> TRUE, source |-> src, valid |-> FALSE, bucket |-> resolveBucketName(e)]

\* if (saJsonRaw) { ... JSON.parse(jsonStr) ... }   (same text in both routes)
InlineBranch(e) ==
    LET parses == IF StartsWithBrace(e.sa) THEN JsonParses(e.sa)
                  ELSE Base64JsonParses(e.sa)
    IN IF parses THEN Resolved("inline", TRUE, e) ELSE Threw("inline", e)

\* The chunk route's discrete branch: JSON, PEM, base64 JSON, else ADC.
ChunkDiscreteBranch(e, pk) ==
    IF StartsWithBrace(pk)
    THEN IF JsonParses(pk) THEN Resolved("discrete", TRUE, e) ELSE Threw("discrete", e)
    ELSE IF IncludesPem(pk) THEN Resolved("discrete", TRUE, e)
    ELSE IF Base64JsonParses(pk) THEN Resolved("discrete", TRUE, e)
    ELSE Resolved("ambient", e.adc, e)

ChunkDiscretePresent(e) ==
    (e.projGoogle \/ e.projGcp) /\ e.email /\ FirstSet(e.gac, e.gcpk) # "none"

\* The branches in the other order: discrete fields before the inline payload
ChunkGetBucketDiscreteFirst(e) ==
    IF ChunkDiscretePresent(e) THEN ChunkDiscreteBranch(e, FirstSet(e.gac, e.gcpk))
    ELSE IF e.sa # "none" THEN InlineBranch(e)
    ELSE Resolved("ambient", e.adc, e)

ChunkGetBucket(e) ==
    IF e.sa # "none" THEN InlineBranch(e)
    ELSE IF ChunkDiscretePresent(e) THEN ChunkDiscreteBranch(e, FirstSet(e.gac, e.gcpk))
    ELSE Resolved("ambient", e.adc, e)

ManifestDiscretePresent(e) == e.projGoogle /\ e.email /\ e.gac # "none"

\* The manifest route hands GOOGLE_APPLICATION_CREDENTIALS over as a PEM key.
ManifestGetBucket(e) ==
    IF e.sa # "none" THEN InlineBranch(e)
    ELSE IF ManifestDiscretePresent(e) THEN Resolved("discrete", IncludesPem(e.gac), e)
    ELSE Resolved("ambient", e.adc, e)

(***************************************************************************)
(* Object keys                                                             *)
(***************************************************************************)
PadWidth == 6

MinSessionIdLength == 6

\* The character class [a-zA-Z0-9-_]: three ranges and two literals.
SafeChars ==
    {LowerCase[i] : i \in 1..Len(LowerCase)} \cup {UpperCase[i] : i \in 1..Len(UpperCase)}
    \cup {Digits[i] : i \in 1..Len(Digits)} \cup {"-", "_"}

IsSafeChar(c) == c \in SafeChars

\* The pattern with + in place of {6,}
isValidSessionIdAnyLength(id) ==
    /\ Len(id) >= 1
    /\ \A i \in 1..Len(id) : IsSafeChar(id[i])

\* /^[a-zA-Z0-9-_]{6,}$/.test(id)
isValidSessionId(id) ==
    /\ Len(id) >= MinSessionIdLength
    /\ \A i \in 1..Len(id) : IsSafeChar(id[i])

WEBM == <<"w", "e", "b", "m">>

\* The extension taken from the major type: mimeType.split('/')[0]
ExtensionOfMajorType(mimeType) ==
    IF IndexIn("/", mimeType) > 0 THEN SubSeq(mimeType, 1, IndexIn("/", mimeType) - 1)
    ELSE mimeType

\* mimeType.includes('webm') ? 'webm' : 'bin'
Extension(mimeType) == IF Includes(mimeType, WEBM) THEN WEBM ELSE <<"b", "i", "n">>

\* String(index) without the padding
UnpaddedIndex(index) == NumberToString(index)

\* The last six characters of the padded text: a fixed-width name
PaddedIndexFixedWidth(index) ==
    LET padded == padStart(NumberToString(index), PadWidth, "0")
    IN SubSeq(padded, Len(padded) - PadWidth + 1, Len(padded))

\* String(index).padStart(6, '0')
PaddedIndex(index) == padStart(NumberToString(index), PadWidth, "0")

\* One object per session and extension: the index left out of the name
ChunkObjectPathPerSession(sessionId, index, mimeType) ==
    sessionId \o <<"/", "c", "h", "u", "n", "k", "s", "/", "c", "h", "u", "n", "k", ".">>
              \o Extension(mimeType)

\* The chunk written over the session's manifest
ChunkObjectPathOverManifest(sessionId, index, mimeType) ==
    sessionId \o <<"/", "m", "a", "n", "i", "f", "e", "s", "t", ".", "j", "s", "o", "n">>

\* `${sessionId}/chunks/${paddedIndex}.${ext}`
ChunkObjectPath(sessionId, index, mimeType) ==
    sessionId \o <<"/", "c", "h", "u", "n", "k", "s", "/">>
              \o PaddedIndex(index) \o <<".">> \o Extension(mimeType)

\* 'manifest.json' without the session prefix
ManifestPathShared(sessionId) ==
    <<"m", "a", "n", "i", "f", "e", "s", "t", ".", "j", "s", "o", "n">>

\* `${sessionId}/manifest.json`
ManifestPath(sessionId) ==
    sessionId \o <<"/", "m", "a", "n", "i", "f", "e", "s", "t", ".", "j", "s", "o", "n">>

\* !Number.isFinite(index) || index < 0   is false
IndexAccepted(index) == NumberIsFinite(index) /\ ~LessThanZero(index)

(***************************************************************************)
(* Storage calls of one request                                            *)
(* A handler's run is the list of calls it made on the storage client,     *)
(* each with its outcome; the response follows from that list.             *)
(***************************************************************************)
GetBucketCall(gb) == [call |-> "getBucket", ok |-> ~gb.threw]

\* file.save() wrapped in a retry: a failed write is attempted once more
SaveCallsRetry(gb, saveOk) ==
    IF gb.valid /\ saveOk THEN <<[call |-> "save", ok |-> TRUE]>>
    ELSE <<[call |-> "save", ok |-> FALSE], [call |-> "save", ok |-> FALSE]>>

\* await file.save(...): one non-resumable write; the backend refuses it
\* when the client's credentials are not valid.
SaveCalls(gb, saveOk) == <<[call |-> "save", ok |-> gb.valid /\ saveOk]>>

\* if (process.env.GOOGLE_CLOUD_PUBLIC_READ === 'true') await file.makePublic()
MakePublicCalls(e, aclOk) ==
    IF e.publicRead THEN <<[call |-> "makePublic", ok |-> aclOk]>> ELSE <<>>

\* makePublic outside its try/catch: every failed call reaches the outer catch
PropagatesAny(c) == ~c.ok

\* Which failed call reaches the handler's outer catch: makePublic sits in
\* its own try/catch, getBucket and save do not.
Propagates(c) == ~c.ok /\ c.call \in {"getBucket", "save"}

\* getBucket(); file.save(); try { makePublic } catch {}
StorageCalls(gb, e, saveOk, aclOk) ==
    LET c1 == <<GetBucketCall(gb)>>
        c2 == SaveCalls(gb, saveOk)
        c3 == MakePublicCalls(e, aclOk)
    IN IF \E i \in 1..Len(c1) : Propagates(c1[i]) THEN c1
       ELSE IF \E i \in 1..Len(c2) : Propagates(c2[i]) THEN c1 \o c2
       ELSE c1 \o c2 \o c3

Count(calls, name) == Cardinality({i \in 1..Len(calls) : calls[i].call = name})

Failed(calls, name) == \E i \in 1..Len(calls) : calls[i].call = name /\ ~calls[i].ok

Succeeded(calls, name) == \E i \in 1..Len(calls) : calls[i].call = name /\ calls[i].ok

\* The run ended in the outer catch.
Caught(calls) == \E i \in 1..Len(calls) : Propagates(calls[i])

\* error.message of the call that threw
ErrorMessage(calls) ==
    IF Failed(calls, "getBucket") THEN "credentials could not be parsed"
    ELSE "storage write failed"

(***************************************************************************)
(* The object store: object name -> object, for the resolved bucket.       *)
(* An object is its body, content type and metadata; its ACL is not kept.  *)
(***************************************************************************)
EmptyStore == [k \in {} |-> None]

\* file.save(): the object named key is created or replaced whole.
Put(st, key, obj) == (key :> obj) @@ st

Exists(st, key) == key \in DOMAIN st

Url(e, path) == <<publicBaseUrl(e), resolveBucketName(e), path>>

NoUrl == <<>>

(***************************************************************************)
(* Inputs                                                                  *)
(***************************************************************************)
MaxCalls == 2

Clock0 == 1000

OCTET == <<"a", "p", "p", "l", "i", "c", "a", "t", "i", "o", "n", "/",
           "o", "c", "t", "e", "t", "-", "s", "t", "r", "e", "a", "m">>

VIDEO_WEBM == <<"v", "i", "d", "e", "o", "/", "w", "e", "b", "m">>

ShortId == <<"a", "b", "c", "1", "2">>

GoodId == <<"a", "b", "c", "1", "2", "3">>

GoodId2 == <<"A", "-", "b", "_", "9", "z">>

BadId == <<"b", "a", "d", " ", "i", "d", "!">>

SessionParams == {Absent, Str(ShortId), Str(GoodId), Str(BadId)}

IndexParams == {Absent, Str(<<"0">>), Str(<<"1">>), Str(<<"1", ".", "5">>),
                Str(<<"-", "1">>), Str(<<"x">>)}

AUDIO_WEBM == <<"a", "u", "d", "i", "o", "/", "w", "e", "b", "m">>

MimeParams == {Absent, Str(VIDEO_WEBM), Str(AUDIO_WEBM)}

FirstPayload == "bytesA"

Payloads == {FirstPayload, "bytesB"}

ManifestSessionIds == {JUndefined, JNumber(42), JString(<<>>), JString(ShortId),
                       JString(GoodId), JString(BadId)}

TotalChunksValues == {JNumber(0), JNumber(3)}

StartedAtValues == {JNumber(5)}

EndedAtValues == {JNumber(9)}

ManifestMimeTypes == {JUndefined}

(***************************************************************************)
(* State                                                                   *)
(*   env    process environment, fixed for the life of the process         *)
(*   store  objects of the bucket                                          *)
(*   now    Date.now()                                                     *)
(*   nCalls requests handled so far                                        *)
(*   last   the last request, the storage calls it made and its response   *)
(*   probe  result of the last evaluation of a pure function               *)
(*   inflight  requests being handled concurrently, each at one of its     *)
(*             awaits                                                      *)
(*   page   the browser page: React state, refs, media objects, timers     *)
(***************************************************************************)
NoRequest ==
    [op |-> "none", req |-> <<>>, status |-> 0, ok |-> FALSE, error |-> "",
     path |-> <<>>, url |-> NoUrl, calls |-> <<>>, source |-> "none",
     replaced |-> <<>>]

NoProbe == [op |-> "none"]

Respond(op, req, status, error, path, url, calls, source, replaced) ==
    [op |-> op, req |-> req, status |-> status, ok |-> status = 200, error |-> error,
     path |-> path, url |-> url, calls |-> calls, source |-> source,
     replaced |-> replaced]

\* The object the write replaced, if any (as a list of at most one object).
Replaced(st, key, calls) ==
    IF Succeeded(calls, "save") /\ Exists(st, key) THEN <<st[key]>> ELSE <<>>

(***************************************************************************)
(* POST chunk                                                              *)
(***************************************************************************)
ChunkObject(sessionId, index, mimeType, payload, t) ==
    [body |-> payload, contentType |-> mimeType,
     meta |-> [sessionId |-> sessionId, index |-> NumberToString(index), uploadedAt |-> t]]

PostChunk(sp, ip, mp, payload, saveOk, aclOk) ==
    LET sessionId  == ParamOr(sp, <<>>)
        indexStr   == ParamOr(ip, <<>>)
        mimeType   == ParamOr(mp, OCTET)
        index      == ToNumber(indexStr)
        objectPath == ChunkObjectPath(sessionId, index, mimeType)
        gb         == ChunkGetBucket(env)
        calls      == StorageCalls(gb, env, saveOk, aclOk)
        obj        == ChunkObject(sessionId, index, mimeType, payload, now)
        req        == [sessionId |-> sp, index |-> ip, mimeType |-> mp, payload |-> payload]
    IN /\ nCalls' = nCalls + 1
       /\ now' = now + 1
       /\ UNCHANGED <<env, probe, inflight, page, health>>
       /\ IF sessionId = <<>> \/ ~isValidSessionId(sessionId)
          THEN /\ last' = Respond("chunk", req, 400, "Invalid sessionId", <<>>, NoUrl,
                                  <<>>, "none", <<>>)
               /\ store' = store
          ELSE IF ~IndexAccepted(index)
          THEN /\ last' = Respond("chunk", req, 400, "Invalid chunk index", <<>>, NoUrl,
                                  <<>>, "none", <<>>)
               /\ store' = store
          ELSE IF Caught(calls)
          THEN /\ last' = Respond("chunk", req, 500, ErrorMessage(calls), <<>>, NoUrl,
                                  calls, gb.source, <<>>)
               /\ store' = IF Succeeded(calls, "save") THEN Put(store, objectPath, obj)
                           ELSE store
          ELSE /\ last' = Respond("chunk", req, 200, "", objectPath, Url(env, objectPath),
                                  calls, gb.source, Replaced(store, objectPath, calls))
               /\ store' = Put(store, objectPath, obj)

(***************************************************************************)
(* POST manifest                                                           *)
(***************************************************************************)
Manifest(sessionId, totalChunks, mimeType, startedAt, endedAt, t, e) ==
    [sessionId   |-> sessionId,
     totalChunks |-> NumberOr(totalChunks, Finite(FALSE, 0, <<>>)),
     mimeType    |-> IF Truthy(mimeType) THEN mimeType ELSE JString(VIDEO_WEBM),
     startedAt   |-> NumberOr(startedAt, Finite(FALSE, t, <<>>)),
     endedAt     |-> NumberOr(endedAt, Finite(FALSE, t, <<>>)),
     uploadedAt  |-> t,
     bucket      |-> resolveBucketName(e),
     version     |-> 1]

APPLICATION_JSON == <<"a", "p", "p", "l", "i", "c", "a", "t", "i", "o", "n", "/",
                      "j", "s", "o", "n">>

ManifestObject(manifest) ==
    [body |-> manifest, contentType |-> APPLICATION_JSON,
     meta |-> [cacheControl |-> "public, max-age=60"]]

\* !sessionId || typeof sessionId !== 'string'
ManifestSessionRejected(sid) == ~Truthy(sid) \/ sid.t # "string"

\* await request.json() sits inside the handler's try: a body that is not
\* JSON throws there and the outer catch answers 500 with the parser's message.
BodyParseError == "Unexpected end of JSON input"

PostManifest(parsed, sid, totalChunks, mimeType, startedAt, endedAt, saveOk, aclOk) ==
    LET manifest     == Manifest(sid.s, totalChunks, mimeType, startedAt, endedAt, now, env)
        gb           == ManifestGetBucket(env)
        manifestPath == ManifestPath(sid.s)
        calls        == StorageCalls(gb, env, saveOk, aclOk)
        obj          == ManifestObject(manifest)
        req          == [parsed |-> parsed, sessionId |-> sid,
                         totalChunks |-> totalChunks,
                         mimeType |-> mimeType, startedAt |-> startedAt,
                         endedAt |-> endedAt]
    IN /\ nCalls' = nCalls + 1
       /\ now' = now + 1
       /\ UNCHANGED <<env, probe, inflight, page, health>>
       /\ IF ~parsed
          THEN /\ last' = Respond("manifest", req, 500, BodyParseError, <<>>,
                                  NoUrl, <<>>, "none", <<>>)
               /\ store' = store
          ELSE IF ManifestSessionRejected(sid)
          THEN /\ last' = Respond("manifest", req, 400, "sessionId is required", <<>>,
                                  NoUrl, <<>>, "none", <<>>)
               /\ store' = store
          ELSE IF Caught(calls)
          THEN /\ last' = Respond("manifest", req, 500, ErrorMessage(calls), <<>>, NoUrl,
                                  calls, gb.source, <<>>)
               /\ store' = IF Succeeded(calls, "save") THEN Put(store, manifestPath, obj)
                           ELSE store
          ELSE /\ last' = Respond("manifest", req, 200, "", manifestPath,
                                  Url(env, manifestPath), calls, gb.source,
                                  Replaced(store, manifestPath, calls))
               /\ store' = Put(store, manifestPath, obj)

(***************************************************************************)
(* The page (HomePage)                                                     *)
(*   isCallActive, isVideoRecording, recordingDuration, videoBlob          *)
(*                       React state (videoBlob: number of chunks in the   *)
(*                       blob, None while null)                            *)
(*   mediaRecorderRef, streamRef, recordingIntervalRef                     *)
(*                       refs: the number of the object held, 0 for null   *)
(*   recorders           the MediaRecorder objects created so far          *)
(*   streams             the MediaStreams acquired so far: tracks live?    *)
(*   timers              the intervals set so far: still running?          *)
(*   starting            runs of startVapiCall, each at one of its awaits, *)
(*                       with the isVideoRecording its closure captured    *)
(*   log                 the last log entry (with the name of the error    *)
(*                       where the message carries the error)              *)
(*   sent                the requests the page has sent with fetch         *)
(***************************************************************************)
NoSessionId == "no session id"

PageInit ==
    [isCallActive |-> FALSE, isVideoRecording |-> FALSE, recordingDuration |-> 0,
     videoBlob |-> None, mediaRecorderRef |-> 0, streamRef |-> 0,
     recordingIntervalRef |-> 0, recorders |-> <<>>, streams |-> <<>>,
     timers |-> <<>>, starting |-> <<>>,
     log |-> [message |-> "Ready for voice calls", level |-> "info"],
     sent |-> <<>>]

Log(p, message, level) == [p EXCEPT !.log = [message |-> message, level |-> level]]

(***************************************************************************)
(* Settings and health check state of the page (page.tsx:21-28), with the  *)
(* environment of the health route:                                        *)
(*   serverKey           process.env.VAPI_SERVER_API_KEY of the route      *)
(*   apiKey, assistantId the settings fields, '' when empty                *)
(*   healthCheckStatus   'idle', 'checking', 'healthy' or 'unhealthy'      *)
(*   lastHealthCheck     the time of the last result, 0 for null           *)
(*   checks              the runs of checkVapiHealth in the order they     *)
(*                       started, each with the apiKey and assistantId of  *)
(*                       its closure, the await it is at, and whether the  *)
(*                       health route's response was ok                    *)
(***************************************************************************)
HealthInit ==
    [serverKey |-> JUndefined, apiKey |-> <<>>, assistantId |-> <<>>,
     healthCheckStatus |-> "idle", lastHealthCheck |-> 0, checks |-> <<>>]

KeyA == <<"k", "e", "y", "A">>

KeyB == <<"k", "e", "y", "B">>

ASSISTANT == <<"a", "s", "s", "t">>

\* The settings as the mount effect loads them from the environment or
\* from localStorage
SettingsLoaded == [HealthInit EXCEPT !.apiKey = KeyA, !.assistantId = ASSISTANT]

\* setHealthCheckStatus('healthy') ahead of the test of response.ok
HealthStatusOfAnyResponse(ok) == "healthy"

\* setHealthCheckStatus('healthy') after an ok response, 'unhealthy' in the
\* catch
HealthStatusOf(ok) == IF ok THEN "healthy" ELSE "unhealthy"

(***************************************************************************)
(* Specification of the two routes                                         *)
(***************************************************************************)
EnvOf(sa, pg, pc, em, gac, gcpk, pub, adc) ==
    [sa |-> sa, projGoogle |-> pg, projGcp |-> pc, email |-> em, gac |-> gac,
     gcpk |-> gcpk, bucketGoogle |-> "none", bucketGcp |-> "none",
     publicRead |-> pub, adc |-> adc]

\* Deployments the routes are run under: one per credential shape.
RouteEnvs ==
    { EnvOf("json",    FALSE, TRUE,  FALSE, "none",    "none", TRUE,  FALSE),
      EnvOf("garbage", TRUE,  FALSE, TRUE,  "pem",     "none", FALSE, TRUE),
      EnvOf("none",    TRUE,  FALSE, TRUE,  "b64json", "none", FALSE, FALSE) }

Init ==
    /\ env \in RouteEnvs
    /\ store = EmptyStore
    /\ now = Clock0
    /\ nCalls = 0
    /\ last = NoRequest
    /\ probe = NoProbe
    /\ inflight = <<>>
    /\ page = PageInit
    /\ health = HealthInit

\* The outcome of a backend call is drawn only for a call the handler makes,
\* and the body of a request only for a request whose body the handler reads
\* (a rejected request returns before request.arrayBuffer()).
ChunkRejected(sp, ip) ==
    \/ ~isValidSessionId(ParamOr(sp, <<>>))
    \/ ~IndexAccepted(ToNumber(ParamOr(ip, <<>>)))

Drawn(rejected, gb, e, saveOk, aclOk) ==
    /\ (rejected \/ gb.threw \/ ~gb.valid) => saveOk
    /\ (rejected \/ gb.threw \/ ~gb.valid \/ ~saveOk \/ ~e.publicRead) => aclOk

ChunkRequest ==
    /\ nCalls < MaxCalls
    /\ \E sp \in SessionParams, ip \in IndexParams :
         LET rejected == ChunkRejected(sp, ip)
             gb       == ChunkGetBucket(env)
         IN \E mp \in MimeParams, payload \in Payloads, saveOk \in BOOLEAN, aclOk \in BOOLEAN :
               /\ Drawn(rejected, gb, env, saveOk, aclOk)
               /\ (rejected => mp = Absent /\ payload = FirstPayload)
               /\ PostChunk(sp, ip, mp, payload, saveOk, aclOk)

ManifestRequest ==
    /\ nCalls < MaxCalls
    /\ \/ PostManifest(FALSE, JUndefined, JUndefined, JUndefined, JUndefined, JUndefined,
                        TRUE, TRUE)
       \/ \E sid \in ManifestSessionIds :
            LET rejected == ManifestSessionRejected(sid)
                gb       == ManifestGetBucket(env)
            IN \E tc \in TotalChunksValues, mt \in ManifestMimeTypes, sa \in StartedAtValues,
                  ea \in EndedAtValues, saveOk \in BOOLEAN, aclOk \in BOOLEAN :
                  /\ Drawn(rejected, gb, env, saveOk, aclOk)
                  /\ PostManifest(TRUE, sid, tc, mt, sa, ea, saveOk, aclOk)

Next == ChunkRequest \/ ManifestRequest

Spec == Init /\ [][Next]_vars

(***************************************************************************)
(* Specification of the key scheme: the chunk key of two indices of one    *)
(* session.                                                                *)
(***************************************************************************)
MaxSmallIndex == 12

PadCapacity == 10 ^ PadWidth

KeyIndices ==
    (0..MaxSmallIndex) \cup
    {99, 100, 999, 1000, 9999, 10000, 99999, 100000, 100001, 500000, 999998,
     PadCapacity - 1, PadCapacity, PadCapacity + 1}

KeySessionIds == {GoodId, GoodId2}

KeyMimeTypes == {OCTET, VIDEO_WEBM}

DefaultEnv == EnvOf("none", FALSE, FALSE, FALSE, "none", "none", FALSE, FALSE)

Integer(i) == Finite(FALSE, i, <<>>)

InitKey ==
    /\ env = DefaultEnv
    /\ store = EmptyStore
    /\ now = Clock0
    /\ nCalls = 0
    /\ last = NoRequest
    /\ probe = NoProbe
    /\ inflight = <<>>
    /\ page = PageInit
    /\ health = HealthInit

KeyProbe ==
    \E sid \in KeySessionIds, i \in KeyIndices, j \in KeyIndices, m \in KeyMimeTypes :
        /\ probe = NoProbe
        /\ probe' = [op |-> "keys", sessionId |-> sid, i |-> i, j |-> j, mimeType |-> m,
                     keyI |-> ChunkObjectPath(sid, Integer(i), m),
                     keyJ |-> ChunkObjectPath(sid, Integer(j), m)]
        /\ UNCHANGED <<env, store, now, nCalls, last, inflight, page, health>>

PrefixId == GoodId \o <<"4">>

ManifestLikeId == <<"m", "a", "n", "i", "f", "e", "s", "t">>

PairSessionIds == {GoodId, GoodId2, PrefixId, ManifestLikeId}

PairIndices ==
    {0, 1, 10, PadCapacity - 1, PadCapacity, PadCapacity + 1, 10 * PadCapacity}

\* The object paths of two chunks, of the same or of different sessions, past
\* the route's validation of the session id, and the manifest path of the
\* second session.
KeyPairProbe ==
    \E sid1 \in PairSessionIds, sid2 \in PairSessionIds,
       i \in PairIndices, j \in PairIndices, m \in KeyMimeTypes :
        /\ probe = NoProbe
        /\ isValidSessionId(sid1) /\ isValidSessionId(sid2)
        /\ IndexAccepted(Integer(i)) /\ IndexAccepted(Integer(j))
        /\ probe' = [op |-> "keyPair", mimeType |-> m,
                     sessionI |-> sid1, i |-> i,
                     sessionJ |-> sid2, j |-> j,
                     keyI |-> ChunkObjectPath(sid1, Integer(i), m),
                     keyJ |-> ChunkObjectPath(sid2, Integer(j), m),
                     manifestJ |-> ManifestPath(sid2)]
        /\ UNCHANGED <<env, store, now, nCalls, last, inflight, page, health>>

NextKey == KeyProbe \/ KeyPairProbe

SpecKey == InitKey /\ [][NextKey]_vars

(***************************************************************************)
(* Specification of credential resolution: getBucket of either route       *)
(* under every environment.                                                *)
(***************************************************************************)
InitCred ==
    /\ env \in Envs
    /\ store = EmptyStore
    /\ now = Clock0
    /\ nCalls = 0
    /\ last = NoRequest
    /\ probe = NoProbe
    /\ inflight = <<>>
    /\ page = PageInit
    /\ health = HealthInit

ResolveChunk ==
    /\ probe = NoProbe
    /\ probe' = [op |-> "getBucket", route |-> "chunk", result |-> ChunkGetBucket(env)]
    /\ UNCHANGED <<env, store, now, nCalls, last, inflight, page, health>>

ResolveManifest ==
    /\ probe = NoProbe
    /\ probe' = [op |-> "getBucket", route |-> "manifest", result |-> ManifestGetBucket(env)]
    /\ UNCHANGED <<env, store, now, nCalls, last, inflight, page, health>>

\* A recording's segment upload and its manifest write under one deployment:
\* getBucket of the chunk route and getBucket of the manifest route.
ResolveBoth ==
    /\ probe = NoProbe
    /\ probe' = [op |-> "getBuckets", chunk |-> ChunkGetBucket(env),
                 manifest |-> ManifestGetBucket(env)]
    /\ UNCHANGED <<env, store, now, nCalls, last, inflight, page, health>>

NextCred == ResolveChunk \/ ResolveManifest \/ ResolveBoth

SpecCred == InitCred /\ [][NextCred]_vars

(***************************************************************************)
(* Terms of the claims, stated apart from the routes' own definitions      *)
(***************************************************************************)
\* Letters, digits, '-' and '_'
SafeKeyChar(c) ==
    \/ (Ord("a") <= Ord(c) /\ Ord(c) <= Ord("z"))
    \/ (Ord("A") <= Ord(c) /\ Ord(c) <= Ord("Z"))
    \/ (Ord("0") <= Ord(c) /\ Ord(c) <= Ord("9"))
    \/ Ord(c) = 45
    \/ Ord(c) = 95

\* A session id that is safe to embed in a key: safe characters, length >= 6
SafeSessionId(id) == Len(id) >= 6 /\ \A i \in 1..Len(id) : SafeKeyChar(id[i])

\* The index parameter is given and denotes a non-negative integer
NonNegativeIntegerParam(p) ==
    /\ p.has
    /\ p.v # <<>>
    /\ IsInteger(ToNumber(p.v))
    /\ ~LessThanZero(ToNumber(p.v))

IsChunkObject(obj) == "sessionId" \in DOMAIN obj.meta

ChunkKeysOf(st) == {k \in DOMAIN st : IsChunkObject(st[k])}

ManifestKeysOf(st) == {k \in DOMAIN st : ~IsChunkObject(st[k])}

SameExtension(ct1, ct2) == Includes(ct1, WEBM) <=> Includes(ct2, WEBM)

(***************************************************************************)
(* C1. A chunk upload whose sessionId is empty, shorter than 6 or holds a  *)
(* character other than a letter, digit, '-' or '_' is answered 400        *)
(* 'Invalid sessionId' and makes no storage call (no getBucket, no save,   *)
(* no makePublic); no chunk object ever lies under such a session id.      *)
(***************************************************************************)
C1_InvalidSessionRejected ==
    /\ (last.op = "chunk" /\ ~SafeSessionId(last.req.sessionId.v)) =>
          /\ last.status = 400
          /\ last.error = "Invalid sessionId"
          /\ ~last.ok
          /\ last.calls = <<>>
          /\ last.path = <<>>
    /\ \A k \in ChunkKeysOf(store) : SafeSessionId(store[k].meta.sessionId)

C1_Witness ==
    /\ last.op = "chunk"
    /\ last.req.sessionId = Str(BadId)
    /\ last.status = 400
    /\ nCalls = 2
    /\ store # EmptyStore

(***************************************************************************)
(* C2. A chunk upload with a valid sessionId whose index is not a          *)
(* non-negative integer (negative, fractional, non-numeric, missing or     *)
(* empty) is answered 400 'Invalid chunk index' before any storage call.   *)
(***************************************************************************)
C2_IndexMustBeNonNegativeInteger ==
    (last.op = "chunk" /\ SafeSessionId(last.req.sessionId.v)
       /\ ~NonNegativeIntegerParam(last.req.index)) =>
          /\ last.status = 400
          /\ last.error = "Invalid chunk index"
          /\ last.calls = <<>>

(***************************************************************************)
(* C3. As claimed: the store never holds two chunk objects of the same     *)
(* (sessionId, index), whatever the mimeTypes they were written with.      *)
(***************************************************************************)
C3_OneObjectPerSessionIndex ==
    \A k1 \in ChunkKeysOf(store), k2 \in ChunkKeysOf(store) :
        (/\ store[k1].meta.sessionId = store[k2].meta.sessionId
         /\ store[k1].meta.index = store[k2].meta.index) => k1 = k2

(***************************************************************************)
(* C3, amended. The store never holds two chunk objects of the same        *)
(* (sessionId, index) whose mimeTypes derive the same extension (both      *)
(* contain 'webm', or neither does), and after a successful chunk upload   *)
(* the object under the returned key is the one just written (payload and  *)
(* content type of this call), so a second write replaces the first.       *)
(***************************************************************************)
C3_IdempotentAddressing ==
    /\ \A k1 \in ChunkKeysOf(store), k2 \in ChunkKeysOf(store) :
          (/\ store[k1].meta.sessionId = store[k2].meta.sessionId
           /\ store[k1].meta.index = store[k2].meta.index
           /\ SameExtension(store[k1].contentType, store[k2].contentType)) => k1 = k2
    /\ (last.op = "chunk" /\ last.ok) =>
          /\ Exists(store, last.path)
          /\ store[last.path].body = last.req.payload
          /\ store[last.path].contentType = ParamOr(last.req.mimeType, OCTET)

C3_Witness ==
    /\ last.op = "chunk"
    /\ last.ok
    /\ last.replaced # <<>>
    /\ last.replaced[1].body # last.req.payload
    /\ last.replaced[1].contentType # store[last.path].contentType

(***************************************************************************)
(* C4. For indices i < j below 1,000,000 of one session the key of i is    *)
(* {sessionId}/chunks/{six digits}.{ext} and sorts before the key of j;    *)
(* at index 1,000,000 the order breaks: its key sorts before the key of    *)
(* every index in 100001..999999.                                          *)
(***************************************************************************)
C4_KeyOrderMatchesIndexOrder ==
    probe.op = "keys" =>
        /\ (probe.i < probe.j /\ probe.j < 1000000) =>
              /\ LexLess(probe.keyI, probe.keyJ)
              /\ ~LexLess(probe.keyJ, probe.keyI)
              /\ Len(probe.keyI) = Len(probe.keyJ)
        /\ probe.i < 1000000 =>
              /\ Len(probe.keyI) = Len(probe.sessionId) + 8 + 6 + 1 + Len(Extension(probe.mimeType))
              /\ SubSeq(probe.keyI, 1, Len(probe.sessionId)) = probe.sessionId
        /\ (probe.j = 1000000 /\ 100000 < probe.i /\ probe.i < probe.j) =>
              LexLess(probe.keyJ, probe.keyI)

C4_Witness ==
    /\ probe.op = "keys"
    /\ probe.i = 999999
    /\ probe.j = 1000000
    /\ LexLess(probe.keyJ, probe.keyI)

(***************************************************************************)
(* C5. A successful manifest write lands under {sessionId}/manifest.json,  *)
(* the only manifest object of that session, and the object then holds     *)
(* the manifest of this call alone (its totalChunks, its uploadedAt),      *)
(* whatever manifest was there before.                                     *)
(***************************************************************************)
C5_ManifestLastWriterWins ==
    (last.op = "manifest" /\ last.ok) =>
        /\ last.path = last.req.sessionId.s
                       \o <<"/", "m", "a", "n", "i", "f", "e", "s", "t", ".", "j", "s", "o", "n">>
        /\ Exists(store, last.path)
        /\ store[last.path].body.sessionId = last.req.sessionId.s
        /\ store[last.path].body.totalChunks = Integer(last.req.totalChunks.n)
        /\ store[last.path].body.uploadedAt = now - 1
        /\ \A k \in ManifestKeysOf(store) :
              store[k].body.sessionId = last.req.sessionId.s => k = last.path

C5_Witness ==
    /\ last.op = "manifest"
    /\ last.ok
    /\ last.replaced # <<>>
    /\ last.replaced[1].body.totalChunks # store[last.path].body.totalChunks
    /\ last.replaced[1].body.uploadedAt < store[last.path].body.uploadedAt

(***************************************************************************)
(* C6. In both routes, once the object write has succeeded the response    *)
(* is 200 with the object's key and address whether makePublic succeeds    *)
(* or fails, and makePublic is called only when the public-read flag is    *)
(* set (and only after a successful write).                                *)
(***************************************************************************)
C6_BestEffortAcl ==
    last.op # "none" =>
        /\ Succeeded(last.calls, "save") =>
              /\ last.status = 200
              /\ last.ok
              /\ last.path # <<>>
              /\ last.url = <<publicBaseUrl(env), resolveBucketName(env), last.path>>
        /\ Count(last.calls, "makePublic") > 0 =>
              /\ env.publicRead
              /\ Succeeded(last.calls, "save")
        /\ Count(last.calls, "makePublic") <= 1

C6_Witness ==
    /\ last.op = "manifest"
    /\ Failed(last.calls, "makePublic")
    /\ last.status = 200
    /\ Exists(store, last.path)

(***************************************************************************)
(* C7. Each request makes at most one object-write attempt; when it fails  *)
(* the response is 500 with an error message, carries no key and no        *)
(* address, and nothing is written.                                        *)
(***************************************************************************)
C7_NoInternalRetry ==
    last.op # "none" =>
        /\ Count(last.calls, "save") <= 1
        /\ Failed(last.calls, "save") =>
              /\ last.status = 500
              /\ ~last.ok
              /\ last.error # ""
              /\ last.path = <<>>
              /\ last.url = NoUrl
              /\ last.replaced = <<>>

C7_Witness ==
    /\ last.op = "chunk"
    /\ Failed(last.calls, "save")
    /\ Count(last.calls, "save") = 1
    /\ last.status = 500
    /\ env.sa = "json"

(***************************************************************************)
(* C8. getBucket of either route takes the inline payload whenever one is  *)
(* set, whatever the discrete fields; takes the discrete fields only when  *)
(* no inline payload is set and the route's identity fields and key        *)
(* material are all set; and falls back to ambient credentials only when   *)
(* no inline payload is set and the discrete source does not apply (a      *)
(* field is missing, or - chunk route - the key material is neither JSON,  *)
(* PEM nor base64 JSON).                                                   *)
(***************************************************************************)
InlineGiven(e) == e.sa # "none"

DiscreteGiven(route, e) ==
    IF route = "chunk"
    THEN (e.projGoogle \/ e.projGcp) /\ e.email /\ (e.gac # "none" \/ e.gcpk # "none")
    ELSE e.projGoogle /\ e.email /\ e.gac # "none"

KeyMaterialOf(route, e) ==
    IF route = "chunk" /\ e.gac = "none" THEN e.gcpk ELSE e.gac

DiscreteApplies(route, e) ==
    /\ DiscreteGiven(route, e)
    /\ route = "chunk" => KeyMaterialOf(route, e) \in {"json", "badjson", "pem", "b64json"}

C8_CredentialPrecedence ==
    probe.op = "getBucket" =>
        /\ InlineGiven(env) => probe.result.source = "inline"
        /\ probe.result.source = "discrete" =>
              ~InlineGiven(env) /\ DiscreteGiven(probe.route, env)
        /\ (~InlineGiven(env) /\ DiscreteApplies(probe.route, env)) =>
              probe.result.source = "discrete"
        /\ probe.result.source = "ambient" =>
              ~InlineGiven(env) /\ ~DiscreteApplies(probe.route, env)

C8_Witness ==
    /\ probe.op = "getBucket"
    /\ probe.route = "chunk"
    /\ env.sa = "b64json"
    /\ DiscreteApplies("chunk", env)
    /\ KeyMaterialOf("chunk", env) = "pem"
    /\ probe.result.source = "inline"
    /\ ~probe.result.threw

(***************************************************************************)
(* C9. getBucket does not fail when at least one credential source is      *)
(* usable: a parsable inline payload, discrete fields with usable key      *)
(* material, or ambient credentials granted by the platform.               *)
(***************************************************************************)
InlineUsable(e) == e.sa \in {"json", "b64json"}

DiscreteUsable(route, e) ==
    /\ DiscreteGiven(route, e)
    /\ KeyMaterialOf(route, e) \in {"json", "pem", "b64json"}

C9_UsableSourceNeverFails ==
    (/\ probe.op = "getBucket"
     /\ (InlineUsable(env) \/ DiscreteUsable(probe.route, env) \/ env.adc)) =>
        ~probe.result.threw

(***************************************************************************)
(* C10. A manifest request with a JSON body whose sessionId is not a      *)
(* string of at least 6 safe characters is answered 400 before any         *)
(* storage call, and no manifest object lies under a key built from such   *)
(* a session id.                                                           *)
(***************************************************************************)
C10_ManifestSessionValidated ==
    /\ (last.op = "manifest" /\ last.req.parsed
          /\ ~(last.req.sessionId.t = "string" /\ SafeSessionId(last.req.sessionId.s))) =>
          /\ last.status = 400
          /\ last.calls = <<>>
    /\ \A k \in ManifestKeysOf(store) : SafeSessionId(store[k].body.sessionId)

(***************************************************************************)
(* Specification of one finalize request: the manifest route over the      *)
(* values a caller can put in each field of the body.                      *)
(***************************************************************************)
VIDEO_MP4 == <<"v", "i", "d", "e", "o", "/", "m", "p", "4">>

FinalizeSessionIds == {JString(GoodId), JString(GoodId2)}

FinalizeTotalChunks == {JUndefined, JNumber(0), JNumber(3), JString(<<"3">>)}

FinalizeTimestamps == {JUndefined, JNumber(0), JNumber(5)}

FinalizeMimeTypes == {JUndefined, JString(<<>>), JString(VIDEO_WEBM), JString(VIDEO_MP4)}

FinalizeRequest ==
    /\ nCalls = 0
    /\ \E sid \in FinalizeSessionIds, tc \in FinalizeTotalChunks, mt \in FinalizeMimeTypes,
          sa \in FinalizeTimestamps, ea \in FinalizeTimestamps,
          saveOk \in BOOLEAN, aclOk \in BOOLEAN :
          /\ Drawn(FALSE, ManifestGetBucket(env), env, saveOk, aclOk)
          /\ PostManifest(TRUE, sid, tc, mt, sa, ea, saveOk, aclOk)

NextManifest == FinalizeRequest

SpecManifest == Init /\ [][NextManifest]_vars

(***************************************************************************)
(* C11. The manifest stored by a successful finalize request carries the   *)
(* caller's sessionId and every supplied totalChunks, (non-empty)         *)
(* mimeType, startedAt and endedAt as supplied (0 included), with the      *)
(* server's uploadedAt, the bucket name and version 1.                     *)
(***************************************************************************)
Supplied(j) == j # JUndefined /\ j # JString(<<>>)

\* A supplied number (or numeric text) is stored as that number.
AsSupplied(j, stored) ==
    (Supplied(j) /\ JToNumber(j).kind = "fin") => stored = JToNumber(j)

C11_ManifestAsSupplied ==
    (last.op = "manifest" /\ last.ok) =>
        LET m == store[last.path].body
            r == last.req
        IN /\ m.sessionId = r.sessionId.s
           /\ AsSupplied(r.totalChunks, m.totalChunks)
           /\ Supplied(r.mimeType) => m.mimeType = r.mimeType
           /\ AsSupplied(r.startedAt, m.startedAt)
           /\ AsSupplied(r.endedAt, m.endedAt)
           /\ m.uploadedAt = now - 1
           /\ m.bucket = resolveBucketName(env)
           /\ m.version = 1

(***************************************************************************)
(* C12. An error response is 400 exactly when the request was turned down  *)
(* for the caller's input (no storage or credential call was made), and    *)
(* 500 exactly when a credential or storage call failed.                   *)
(***************************************************************************)
C12_StatusSeparatesValidationFromBackend ==
    (last.op \in {"chunk", "manifest"} /\ ~last.ok) =>
        /\ last.status \in {400, 500}
        /\ last.status = 400 <=> last.calls = <<>>
        /\ last.status = 500 <=> Caught(last.calls)

(***************************************************************************)
(* Specification of concurrent requests: each handler runs to its next     *)
(* await, and the storage backend completes the pending writes in any      *)
(* order.                                                                  *)
(*   inflight[i].pc   "save"        file.save() is pending                 *)
(*                    "makePublic"  file.makePublic() is pending           *)
(*                    "done"        the response was sent                  *)
(***************************************************************************)
MaxInFlight == 2

ConcEnv == EnvOf("json", FALSE, TRUE, FALSE, "none", "none", TRUE, FALSE)

ConcSessionParams == {Str(GoodId)}

ConcIndexParams == {Str(<<"0">>), Str(<<"1">>), Str(<<"2">>), Str(<<"x">>)}

ConcMimeParams == {Str(VIDEO_WEBM)}

InitConc ==
    /\ env = ConcEnv
    /\ store = EmptyStore
    /\ now = Clock0
    /\ nCalls = 0
    /\ last = NoRequest
    /\ probe = NoProbe
    /\ inflight = <<>>
    /\ page = PageInit
    /\ health = HealthInit

Pending(op, req, path, obj) ==
    [op |-> op, req |-> req, pc |-> "save", status |-> 0, path |-> path, obj |-> obj,
     saved |-> FALSE, savedAt |-> 0]

Answered(op, req, status) ==
    [op |-> op, req |-> req, pc |-> "done", status |-> status, path |-> <<>>,
     obj |-> None, saved |-> FALSE, savedAt |-> 0]

\* POST chunk up to `await file.save(...)`
ChunkArrive ==
    /\ Len(inflight) < MaxInFlight
    /\ \E sp \in ConcSessionParams, ip \in ConcIndexParams, mp \in ConcMimeParams,
          payload \in Payloads :
         LET sessionId  == ParamOr(sp, <<>>)
             mimeType   == ParamOr(mp, OCTET)
             index      == ToNumber(ParamOr(ip, <<>>))
             objectPath == ChunkObjectPath(sessionId, index, mimeType)
             obj        == ChunkObject(sessionId, index, mimeType, payload, now)
             req        == [sessionId |-> sp, index |-> ip, mimeType |-> mp,
                            payload |-> payload]
         IN /\ (ChunkRejected(sp, ip) => payload = FirstPayload)
            /\ inflight' = Append(inflight,
                 IF ChunkRejected(sp, ip) THEN Answered("chunk", req, 400)
                 ELSE IF ChunkGetBucket(env).threw THEN Answered("chunk", req, 500)
                 ELSE Pending("chunk", req, objectPath, obj))
    /\ now' = now + 1
    /\ UNCHANGED <<env, store, nCalls, last, probe, page, health>>

\* POST manifest up to `await file.save(...)`
ManifestArrive ==
    /\ Len(inflight) < MaxInFlight
    /\ \A i \in 1..Len(inflight) : inflight[i].op # "manifest"
    /\ \E sid \in {JString(GoodId)}, tc \in {JNumber(3)} :
         LET manifest == Manifest(sid.s, tc, JUndefined, JUndefined, JUndefined, now, env)
             req      == [parsed |-> TRUE, sessionId |-> sid, totalChunks |-> tc,
                          mimeType |-> JUndefined, startedAt |-> JUndefined,
                          endedAt |-> JUndefined]
         IN inflight' = Append(inflight,
                 IF ManifestSessionRejected(sid) THEN Answered("manifest", req, 400)
                 ELSE IF ManifestGetBucket(env).threw THEN Answered("manifest", req, 500)
                 ELSE Pending("manifest", req, ManifestPath(sid.s), ManifestObject(manifest)))
    /\ now' = now + 1
    /\ UNCHANGED <<env, store, nCalls, last, probe, page, health>>

\* The backend settles a pending file.save(): the object is created or
\* replaced, or the promise rejects and the outer catch answers 500.
SaveComplete ==
    \E i \in 1..Len(inflight), ok \in BOOLEAN :
       LET r == inflight[i]
       IN /\ r.pc = "save"
          /\ IF ok
             THEN /\ store' = Put(store, r.path, r.obj)
                  /\ inflight' = [inflight EXCEPT ![i] =
                        [r EXCEPT !.saved = TRUE, !.savedAt = now,
                                  !.pc = IF env.publicRead THEN "makePublic" ELSE "done",
                                  !.status = IF env.publicRead THEN 0 ELSE 200]]
             ELSE /\ store' = store
                  /\ inflight' = [inflight EXCEPT ![i] =
                        [r EXCEPT !.pc = "done", !.status = 500]]
          /\ now' = now + 1
          /\ UNCHANGED <<env, nCalls, last, probe, page, health>>

\* The backend settles a pending file.makePublic(); either way the handler
\* answers 200.
MakePublicComplete ==
    \E i \in 1..Len(inflight) :
       /\ inflight[i].pc = "makePublic"
       /\ inflight' = [inflight EXCEPT ![i] =
             [inflight[i] EXCEPT !.pc = "done", !.status = 200]]
       /\ UNCHANGED <<env, store, now, nCalls, last, probe, page, health>>

NextConc == ChunkArrive \/ ManifestArrive \/ SaveComplete \/ MakePublicComplete

SpecConc == InitConc /\ [][NextConc]_vars

(***************************************************************************)
(* C13. Whatever the order in which the backend completes them, every      *)
(* successful chunk write of a session whose index no other chunk request  *)
(* of that session carries is stored under its own key with its own        *)
(* payload and index, and a written manifest of the session stays the      *)
(* manifest.                                                               *)
(***************************************************************************)
SameSegment(r1, r2) ==
    /\ r1.op = "chunk" /\ r2.op = "chunk"
    /\ r1.req.sessionId = r2.req.sessionId
    /\ ToNumber(ParamOr(r1.req.index, <<>>)) = ToNumber(ParamOr(r2.req.index, <<>>))

C13_SegmentsKeepOwnKeys ==
    \A i \in 1..Len(inflight) :
       LET r == inflight[i]
       IN /\ (/\ r.op = "chunk" /\ r.saved
              /\ \A j \in 1..Len(inflight) : j # i => ~SameSegment(r, inflight[j])) =>
                 /\ Exists(store, r.path)
                 /\ IsChunkObject(store[r.path])
                 /\ store[r.path].body = r.req.payload
                 /\ store[r.path].meta.index =
                       NumberToString(ToNumber(ParamOr(r.req.index, <<>>)))
          /\ (r.op = "manifest" /\ r.saved) =>
                 /\ Exists(store, r.path)
                 /\ ~IsChunkObject(store[r.path])
                 /\ store[r.path].body.sessionId = r.req.sessionId.s

C13_Witness ==
    \E i, j \in 1..Len(inflight) :
       /\ i < j
       /\ inflight[i].op = "chunk" /\ inflight[j].op = "chunk"
       /\ inflight[i].saved /\ inflight[j].saved
       /\ inflight[j].savedAt < inflight[i].savedAt
       /\ ~SameSegment(inflight[i], inflight[j])
       /\ inflight[i].req.payload # inflight[j].req.payload

(***************************************************************************)
(* C14. A chunk upload, successful or failed, leaves every object named    *)
(* {sessionId}/manifest.json as it was and creates none; it changes at     *)
(* most one object, the chunk of its own sessionId and index. An object    *)
(* named {sessionId}/manifest.json is created or changed only by a         *)
(* finalize request, under that request's sessionId.                       *)
(***************************************************************************)
MANIFEST_SUFFIX == <<"/", "m", "a", "n", "i", "f", "e", "s", "t", ".", "j", "s", "o", "n">>

IsManifestKey(k) ==
    /\ Len(k) >= Len(MANIFEST_SUFFIX)
    /\ SubSeq(k, Len(k) - Len(MANIFEST_SUFFIX) + 1, Len(k)) = MANIFEST_SUFFIX

Written(st1, st2) == {k \in DOMAIN st2 : k \notin DOMAIN st1 \/ st2[k] # st1[k]}

C14_NoImplicitManifest ==
    [][ /\ DOMAIN store \subseteq DOMAIN store'
        /\ last'.op = "chunk" =>
              /\ Cardinality(Written(store, store')) <= 1
              /\ \A k \in Written(store, store') :
                    /\ ~IsManifestKey(k)
                    /\ IsChunkObject(store'[k])
                    /\ store'[k].meta.sessionId = last'.req.sessionId.v
                    /\ store'[k].meta.index =
                          NumberToString(ToNumber(ParamOr(last'.req.index, <<>>)))
        /\ \A k \in Written(store, store') :
              IsManifestKey(k) => /\ last'.op = "manifest"
                                  /\ k = last'.req.sessionId.s \o MANIFEST_SUFFIX
      ]_vars

C14_Witness ==
    /\ last.op = "chunk"
    /\ last.ok
    /\ \E k \in DOMAIN store : IsManifestKey(k) /\ ~IsChunkObject(store[k])
    /\ \E k \in DOMAIN store : ~IsManifestKey(k) /\ IsChunkObject(store[k])

(***************************************************************************)
(* The page's recording handlers                                           *)
(***************************************************************************)
\* new MediaRecorder(stream, ...); const chunks = []: the recorder is made
\* with its own chunk buffer and no session id.
NewRecorder(stream) ==
    [state |-> "recording", stream |-> stream, chunks |-> 0, stopPending |-> FALSE,
     sessionId |-> NoSessionId]

\* setIsVideoRecording(true) ahead of the await: the flag stays set when
\* getUserMedia rejects
StartVideoRecordingDeniedFlagSet(p) ==
    Log([p EXCEPT !.isVideoRecording = TRUE],
        "Error starting video recording: NotAllowedError", "error")

\* getUserMedia rejected: the catch logs the error and nothing else ran.
StartVideoRecordingDenied(p) ==
    Log(p, "Error starting video recording: NotAllowedError", "error")

\* getUserMedia resolved and new MediaRecorder(...) threw: the stream is
\* already held in streamRef when the catch logs the error.
StartVideoRecordingNoRecorder(p) ==
    Log([p EXCEPT !.streams = Append(p.streams, TRUE),
                  !.streamRef = Len(p.streams) + 1],
        "Error starting video recording: NotSupportedError", "error")

\* The body of startVideoRecording after getUserMedia resolved: the refs are
\* overwritten, whatever they held.
StartVideoRecordingGranted(p) ==
    Log([p EXCEPT !.streams = Append(p.streams, TRUE),
                  !.streamRef = Len(p.streams) + 1,
                  !.recorders = Append(p.recorders, NewRecorder(Len(p.streams) + 1)),
                  !.mediaRecorderRef = Len(p.recorders) + 1,
                  !.isVideoRecording = TRUE,
                  !.recordingDuration = 0,
                  !.timers = Append(p.timers, TRUE),
                  !.recordingIntervalRef = Len(p.timers) + 1],
        "Video recording started", "success")

DeviceOutcomes == {"granted", "denied", "norecorder"}

startVideoRecording(p, outcome) ==
    CASE outcome = "denied"     -> StartVideoRecordingDenied(p)
      [] outcome = "norecorder" -> StartVideoRecordingNoRecorder(p)
      [] OTHER                  -> StartVideoRecordingGranted(p)

\* stopVideoRecording as seen by a closure that captured `flag` for
\* isVideoRecording. MediaRecorder.stop() on an inactive recorder throws and
\* nothing after it runs.
stopVideoRecording(p, flag) ==
    IF p.mediaRecorderRef = 0 \/ ~flag THEN p
    ELSE IF p.recorders[p.mediaRecorderRef].state = "inactive" THEN p
    ELSE Log([p EXCEPT !.recorders[p.mediaRecorderRef].state = "inactive",
                       !.recorders[p.mediaRecorderRef].stopPending = TRUE,
                       !.isVideoRecording = FALSE,
                       !.timers = IF p.recordingIntervalRef = 0 THEN p.timers
                                  ELSE [p.timers EXCEPT ![p.recordingIntervalRef] = FALSE],
                       !.recordingIntervalRef = 0],
             "Video recording stopped", "info")

\* streamRef.current.getTracks().forEach(track => track.stop()): a recorder
\* still recording that stream ends with it.
StopTracks(p) ==
    IF p.streamRef = 0 THEN p
    ELSE [p EXCEPT !.streams[p.streamRef] = FALSE,
                   !.streamRef = 0,
                   !.recorders = [r \in DOMAIN p.recorders |->
                        IF p.recorders[r].stream = p.streamRef
                           /\ p.recorders[r].state = "recording"
                        THEN [p.recorders[r] EXCEPT !.state = "inactive",
                                                    !.stopPending = TRUE]
                        ELSE p.recorders[r]]]

(***************************************************************************)
(* Specification of the page: calls started and ended by the user, the     *)
(* SDK's events, the media recorder's stop event and the duration timer.   *)
(***************************************************************************)
MaxStarts == 2

MaxDuration == 2

MaxHealthChecks == 1

InitPage ==
    /\ env = DefaultEnv
    /\ store = EmptyStore
    /\ now = Clock0
    /\ nCalls = 0
    /\ last = NoRequest
    /\ probe = NoProbe
    /\ inflight = <<>>
    /\ page = PageInit
    /\ health = SettingsLoaded

\* A run of startVapiCall that has returned.
Returned == [pc |-> "done", isVideoRecording |-> FALSE]

\* startVapiCall up to `await navigator.mediaDevices.getUserMedia(...)`; the
\* button is disabled while isCallActive.
StartCall(maxStarts) ==
    /\ Len(page.starting) < maxStarts
    /\ ~page.isCallActive
    /\ page' = [Log(page, "Requesting camera and microphone access...", "info")
                   EXCEPT !.starting = Append(page.starting,
                              [pc |-> "getUserMedia",
                               isVideoRecording |-> page.isVideoRecording])]
    /\ UNCHANGED <<env, store, now, nCalls, last, probe, inflight, health>>

\* getUserMedia settles: the rest of startVideoRecording runs, then
\* startVapiCall goes on to setIsCallActive(true) and `await vapi.start()`.
GetUserMediaSettles ==
    /\ \E i \in 1..Len(page.starting), outcome \in DeviceOutcomes :
         /\ page.starting[i].pc = "getUserMedia"
         /\ page' = [startVideoRecording(page, outcome)
                        EXCEPT !.isCallActive = TRUE,
                               !.starting[i].pc = "vapiStart"]
    /\ UNCHANGED <<env, store, now, nCalls, last, probe, inflight, health>>

\* vapi.start() settles; on rejection the catch clears isCallActive and
\* stops the recording if the closure's isVideoRecording says one runs.
VapiStartSettles ==
    /\ \E i \in 1..Len(page.starting), ok \in BOOLEAN :
         LET flag == page.starting[i].isVideoRecording
         IN /\ page.starting[i].pc = "vapiStart"
            /\ page' = IF ok
                       THEN [Log(page, "VAPI call started successfully", "success")
                               EXCEPT !.starting[i] = Returned]
                       ELSE [Log(stopVideoRecording(
                                    [page EXCEPT !.isCallActive = FALSE], flag),
                                 "Error starting VAPI call", "error")
                               EXCEPT !.starting[i] = Returned]
    /\ UNCHANGED <<env, store, now, nCalls, last, probe, inflight, health>>

\* endVapiCall; the button is enabled while isCallActive.
EndCallClick ==
    /\ page.isCallActive
    /\ \E ok \in BOOLEAN :
         page' = [Log(stopVideoRecording(page, page.isVideoRecording),
                      IF ok THEN "VAPI call ended successfully"
                      ELSE "Error ending VAPI call",
                      IF ok THEN "success" ELSE "error")
                    EXCEPT !.isCallActive = FALSE]
    /\ UNCHANGED <<env, store, now, nCalls, last, probe, inflight, health>>

\* vapi.on('call-end')
CallEndEvent ==
    /\ page.isCallActive
    /\ page' = stopVideoRecording(
                   [Log(page, "VAPI call ended", "info") EXCEPT !.isCallActive = FALSE],
                   page.isVideoRecording)
    /\ UNCHANGED <<env, store, now, nCalls, last, probe, inflight, health>>

\* vapi.on('error'): the call is marked inactive, the recording is left alone.
VapiErrorEvent ==
    /\ page.isCallActive
    /\ page' = [Log(page, "VAPI error", "error") EXCEPT !.isCallActive = FALSE]
    /\ UNCHANGED <<env, store, now, nCalls, last, probe, inflight, health>>

\* A stopped recorder delivers its data (ondataavailable) and then its stop
\* event (onstop): blob, log, and the tracks of the stream in streamRef.
RecorderStopEvent ==
    /\ \E r \in 1..Len(page.recorders), size \in {0, 1} :
         LET chunks == page.recorders[r].chunks + size
         IN /\ page.recorders[r].stopPending
            /\ page' = StopTracks(
                           [Log(page, "Video recording saved", "success")
                              EXCEPT !.recorders[r].chunks = chunks,
                                     !.recorders[r].stopPending = FALSE,
                                     !.videoBlob = chunks])
    /\ UNCHANGED <<env, store, now, nCalls, last, probe, inflight, health>>

\* setInterval(() => setRecordingDuration(prev => prev + 1), 1000), for
\* every interval still running.
TickUpTo(maxDuration) ==
    /\ page.recordingDuration < maxDuration
    /\ \E t \in 1..Len(page.timers) : page.timers[t]
    /\ page' = [page EXCEPT !.recordingDuration = page.recordingDuration + 1]
    /\ UNCHANGED <<env, store, now, nCalls, last, probe, inflight, health>>

\* checkVapiHealth from fetch('/api/vapi/health', { method: 'POST', ... })
\* to the result of the check, its awaits taken in one step.
CheckHealth ==
    /\ Len(page.sent) < MaxHealthChecks
    /\ health.apiKey # <<>>
    /\ \E ok \in BOOLEAN :
         /\ page' = [Log(page, IF ok THEN "VAPI API health check successful"
                               ELSE "VAPI API health check failed",
                         IF ok THEN "success" ELSE "error")
                       EXCEPT !.sent = Append(page.sent,
                                  [url |-> "/api/vapi/health", method |-> "POST"])]
         /\ health' = [health EXCEPT !.healthCheckStatus = HealthStatusOf(ok),
                                     !.lastHealthCheck = now]
    /\ UNCHANGED <<env, store, now, nCalls, last, probe, inflight>>

StartCallClick == StartCall(MaxStarts)

Tick == TickUpTo(MaxDuration)

NextPage ==
    \/ StartCallClick
    \/ GetUserMediaSettles
    \/ VapiStartSettles
    \/ EndCallClick
    \/ CallEndEvent
    \/ VapiErrorEvent
    \/ RecorderStopEvent
    \/ Tick
    \/ CheckHealth

SpecPage == InitPage /\ [][NextPage]_vars

(***************************************************************************)
(* Specification of one recording session: the same handlers with one      *)
(* call started and the duration timer followed over the length of a       *)
(* recording.                                                              *)
(***************************************************************************)
SessionStarts == 1

SessionSeconds == 12

SessionStart == StartCall(SessionStarts)

SessionTick == TickUpTo(SessionSeconds)

NextSession ==
    \/ SessionStart
    \/ GetUserMediaSettles
    \/ VapiStartSettles
    \/ EndCallClick
    \/ CallEndEvent
    \/ VapiErrorEvent
    \/ RecorderStopEvent
    \/ SessionTick
    \/ CheckHealth

SpecSession == InitPage /\ [][NextSession]_vars

(***************************************************************************)
(* Terms of the claims about the recorder                                  *)
(***************************************************************************)
SegmentInterval == 5

CHUNK_URL == "/api/recording/chunk"

MANIFEST_URL == "/api/recording/complete"

SegmentWrites(sent) == SelectSeq(sent, LAMBDA q : q.url = CHUNK_URL)

ManifestWrites(sent) == SelectSeq(sent, LAMBDA q : q.url = MANIFEST_URL)

StopsHandled(p) ==
    {r \in 1..Len(p.recorders) :
        p.recorders[r].state = "inactive" /\ ~p.recorders[r].stopPending}

Recording(p) == {r \in 1..Len(p.recorders) : p.recorders[r].state = "recording"}

LiveStreams(p) == {x \in 1..Len(p.streams) : p.streams[x]}

LiveTimers(p) == {t \in 1..Len(p.timers) : p.timers[t]}

RecorderState(p) ==
    <<p.isVideoRecording, p.mediaRecorderRef, p.streamRef, p.recordingIntervalRef,
      p.recorders, p.streams, p.timers, p.recordingDuration, p.videoBlob>>

Idle(p) ==
    /\ ~p.isVideoRecording
    /\ p.mediaRecorderRef = 0 /\ p.streamRef = 0 /\ p.recordingIntervalRef = 0
    /\ p.recorders = <<>> /\ p.streams = <<>> /\ p.timers = <<>>

(***************************************************************************)
(* C15. Once the stop of a recording has been handled, the page has sent   *)
(* exactly one manifest write for it: as many manifest writes as           *)
(* recordings stopped, however many chunks each produced.                  *)
(***************************************************************************)
C15_OneManifestPerStop ==
    Len(ManifestWrites(page.sent)) = Cardinality(StopsHandled(page))

(***************************************************************************)
(* C16. A single recording stopped after 12 seconds of capture has sent    *)
(* three segment writes, with indices 0, 1, 2 (one per 5-second interval   *)
(* and one for the partial rest), and one manifest write with              *)
(* totalChunks = 3.                                                        *)
(***************************************************************************)
C16_TotalChunksCountsSegments ==
    (/\ Len(page.recorders) = 1
     /\ StopsHandled(page) = {1}
     /\ page.recordingDuration = SessionSeconds) =>
        LET segs == SegmentWrites(page.sent)
            mans == ManifestWrites(page.sent)
            due  == (SessionSeconds + SegmentInterval - 1) \div SegmentInterval
        IN /\ Len(segs) = due
           /\ \A i \in 1..Len(segs) : segs[i].index = i - 1
           /\ Len(mans) = 1
           /\ \A i \in 1..Len(mans) : mans[i].totalChunks = due

(***************************************************************************)
(* C17. While recording, every tick that completes another 5-second        *)
(* interval sends one more segment, and that segment's index is the        *)
(* number of segments sent before it.                                      *)
(***************************************************************************)
C17_SegmentIndicesCountUp ==
    [][ (/\ page'.recordingDuration = page.recordingDuration + 1
         /\ page.isVideoRecording
         /\ page'.recordingDuration % SegmentInterval = 0) =>
            LET before == SegmentWrites(page.sent)
                after  == SegmentWrites(page'.sent)
            IN /\ Len(after) = Len(before) + 1
               /\ after[Len(after)].index = Len(before)
      ]_vars

(***************************************************************************)
(* C18. At most one capture stream is live, at most one media recorder is  *)
(* recording and at most one duration timer is running.                    *)
(***************************************************************************)
C18_SingleCapture ==
    /\ Cardinality(LiveStreams(page)) <= 1
    /\ Cardinality(Recording(page)) <= 1
    /\ Cardinality(LiveTimers(page)) <= 1

(***************************************************************************)
(* C19. When getUserMedia rejects, startVideoRecording changes nothing of  *)
(* the recorder (flag, refs, recorders, streams, timers, duration, blob):  *)
(* an idle recorder stays idle, and the failure is logged as an error.     *)
(***************************************************************************)
DeviceFailureMessage == "Error starting video recording: NotAllowedError"

C19_DeviceFailureLeavesIdle ==
    [][ (/\ page'.log.message = DeviceFailureMessage
         /\ page'.starting # page.starting) =>
            /\ RecorderState(page') = RecorderState(page)
            /\ Idle(page) => Idle(page')
            /\ page'.log.level = "error"
            /\ page'.sent = page.sent
      ]_vars

C19_Witness ==
    /\ page.log.message = DeviceFailureMessage
    /\ Idle(page)
    /\ page.log.level = "error"
    /\ page.isCallActive

(***************************************************************************)
(* C20. Every recording runs under a session id of its own: each media     *)
(* recorder started carries a session id, no two carry the same one, and   *)
(* a recorder that has stopped is not recording again.                     *)
(***************************************************************************)
C20_NewSessionPerRecording ==
    /\ \A r \in 1..Len(page.recorders) : page.recorders[r].sessionId # NoSessionId
    /\ \A r1, r2 \in 1..Len(page.recorders) :
          r1 # r2 => page.recorders[r1].sessionId # page.recorders[r2].sessionId

(***************************************************************************)
(* C22. The recorder never holds more than one interval of captured data   *)
(* that has not been handed to an upload: while a recording runs, the      *)
(* seconds captured so far exceed the seconds covered by the segments      *)
(* sent by at most one 5-second interval.                                  *)
(***************************************************************************)
SecondsNotHandedOver(p) ==
    p.recordingDuration - SegmentInterval * Len(SegmentWrites(p.sent))

C22_BoundedBuffering ==
    page.isVideoRecording => SecondsNotHandedOver(page) <= SegmentInterval

(***************************************************************************)
(* C24. When starting the voice call fails after the recording for it was  *)
(* started, the error path of startVapiCall leaves no recorder recording   *)
(* and no duration timer running.                                          *)
(***************************************************************************)
C24_FailedStartStopsRecording ==
    [][ (/\ page'.log.message = "Error starting VAPI call"
         /\ page'.starting # page.starting) =>
            /\ Recording(page') = {}
            /\ LiveTimers(page') = {}
            /\ ~page'.isVideoRecording
      ]_vars

(***************************************************************************)
(* C25. Whenever a call that had started ends, by End Call, by the         *)
(* call-end event or by the error event, the recording is stopped: if      *)
(* the step that marks the call inactive leaves nothing pending (no run    *)
(* of startVapiCall at an await, no recorder with its stop event           *)
(* outstanding), then no recorder is recording any more.                   *)
(***************************************************************************)
CallRunning(p) ==
    /\ p.isCallActive
    /\ \A i \in 1..Len(p.starting) : p.starting[i] = Returned

Quiescent(p) ==
    /\ \A i \in 1..Len(p.starting) : p.starting[i] = Returned
    /\ \A r \in 1..Len(p.recorders) : ~p.recorders[r].stopPending

C25_CallEndStopsRecording ==
    [][ (CallRunning(page) /\ ~page'.isCallActive /\ Quiescent(page')) =>
            /\ Recording(page') = {}
            /\ ~page'.isVideoRecording
      ]_vars

(***************************************************************************)
(* The health route: POST /api/vapi/health                                 *)
(***************************************************************************)
ServerKey1 == <<"s", "r", "v", "1">>

ServerKey2 == <<"s", "r", "v", "2">>

\* Values of process.env.VAPI_SERVER_API_KEY: unset, empty, or a key
ServerKeys == {JUndefined, JString(<<>>), JString(ServerKey1), JString(ServerKey2)}

\* Request bodies: one that request.json() rejects, or an object whose
\* apiKey is missing, empty or a key
HealthBody(parsed, apiKey) == [parsed |-> parsed, apiKey |-> apiKey]

HealthBodies ==
    {HealthBody(FALSE, JUndefined)} \cup
    {HealthBody(TRUE, k) : k \in {JUndefined, JString(<<>>), JString(KeyA), JString(KeyB)}}

\* What fetch('https://api.vapi.ai/assistant') comes to: it rejects, or the
\* upstream answers with a status and a body that is a JSON array, other
\* JSON, or not JSON at all.
Upstream(kind, status, json, array) ==
    [kind |-> kind, status |-> status, json |-> json, array |-> array]

UpstreamOutcomes ==
    { Upstream("reject", 0, FALSE, FALSE),
      Upstream("answer", 200, TRUE, TRUE),
      Upstream("answer", 200, TRUE, FALSE),
      Upstream("answer", 200, FALSE, FALSE),
      Upstream("answer", 401, TRUE, FALSE),
      Upstream("answer", 403, TRUE, FALSE),
      Upstream("answer", 500, FALSE, FALSE) }

\* The fetch has not settled
UpstreamPending == Upstream("pending", 0, FALSE, FALSE)

UNKNOWN == <<"u", "n", "k", "n", "o", "w", "n">>

Bearer(apiKey) == <<"B", "e", "a", "r", "e", "r", " ">> \o apiKey.s

HealthResponse(status, success, assistantCount, usedKey, error, upstream) ==
    [status |-> status, ok |-> status \in 200..299, success |-> success,
     assistantCount |-> assistantCount, usedKey |-> usedKey, error |-> error,
     upstream |-> upstream]

HealthFailure(status, error, upstream) ==
    HealthResponse(status, FALSE, JUndefined, None, error, upstream)

\* No response yet
NoHealthResponse == HealthFailure(0, None, <<>>)

\* const apiKey = serverKey || providedKey
HealthApiKey(serverKey, providedKey) ==
    IF Truthy(serverKey) THEN serverKey ELSE providedKey

\* POST of the health route; `upstream` is what its fetch comes to. The
\* response carries the requests the route sent upstream.
HealthPOST(serverKey, body, upstream) ==
    IF ~body.parsed THEN HealthFailure(500, "Health check failed", <<>>)
    ELSE
      LET apiKey  == HealthApiKey(serverKey, body.apiKey)
          request == [url |-> "https://api.vapi.ai/assistant", method |-> "GET",
                      authorization |-> Bearer(apiKey)]
      IN IF ~Truthy(apiKey) THEN HealthFailure(400, "API key is required", <<>>)
         ELSE IF upstream.kind = "reject"
              THEN HealthFailure(500, "Health check failed", <<request>>)
         ELSE IF upstream.status \notin 200..299
              THEN HealthFailure(upstream.status, "API call failed", <<request>>)
         ELSE IF ~upstream.json
              THEN HealthFailure(500, "Health check failed", <<request>>)
         ELSE HealthResponse(200, TRUE,
                  IF upstream.array THEN JNumber(1) ELSE JString(UNKNOWN),
                  IF Truthy(serverKey) THEN "server" ELSE "client",
                  None, <<request>>)

\* The route awaits its upstream fetch exactly when it has a key to send.
AwaitsUpstream(serverKey, body) ==
    body.parsed /\ Truthy(HealthApiKey(serverKey, body.apiKey))

InitHealthRoute ==
    /\ env = DefaultEnv
    /\ store = EmptyStore
    /\ now = Clock0
    /\ nCalls = 0
    /\ last = NoRequest
    /\ probe = NoProbe
    /\ inflight = <<>>
    /\ page = PageInit
    /\ health \in {[HealthInit EXCEPT !.serverKey = k] : k \in ServerKeys}

\* A request reaches the route, which runs up to its await of the upstream
\* fetch, or to its response when it sends none.
HealthArrive ==
    /\ probe = NoProbe
    /\ \E body \in HealthBodies :
         probe' = [op |-> "health", body |-> body,
                   pc |-> IF AwaitsUpstream(health.serverKey, body)
                          THEN "upstream" ELSE "done",
                   upstream |-> UpstreamPending,
                   response |-> IF AwaitsUpstream(health.serverKey, body)
                                THEN NoHealthResponse
                                ELSE HealthPOST(health.serverKey, body,
                                                UpstreamPending)]
    /\ UNCHANGED <<env, store, now, nCalls, last, inflight, page, health>>

\* The upstream fetch settles and the route responds.
HealthUpstreamSettles ==
    /\ probe.op = "health"
    /\ probe.pc = "upstream"
    /\ \E outcome \in UpstreamOutcomes :
         probe' = [probe EXCEPT
                      !.pc = "done",
                      !.upstream = outcome,
                      !.response = HealthPOST(health.serverKey, probe.body, outcome)]
    /\ UNCHANGED <<env, store, now, nCalls, last, inflight, page, health>>

NextHealthRoute == HealthArrive \/ HealthUpstreamSettles

SpecHealthRoute == InitHealthRoute /\ [][NextHealthRoute]_vars

(***************************************************************************)
(* C26. The health route sends its upstream request with the server-side   *)
(* key whenever one is configured, whatever the client sent, and otherwise *)
(* with the client's key; a success response reports which of the two was  *)
(* used. When neither key exists the route answers 400 and sends no        *)
(* upstream request.                                                       *)
(***************************************************************************)
ServerKeyConfigured(h) == h.serverKey.t = "string" /\ h.serverKey.s # <<>>

ClientKeySent(body) ==
    body.parsed /\ body.apiKey.t = "string" /\ body.apiKey.s # <<>>

AuthenticatedWith(response, key) ==
    /\ Len(response.upstream) = 1
    /\ response.upstream[1].authorization = <<"B", "e", "a", "r", "e", "r", " ">> \o key

C26_ServerKeyPreferred ==
    (probe.op = "health" /\ probe.pc = "done") =>
        IF ServerKeyConfigured(health)
        THEN /\ AuthenticatedWith(probe.response, health.serverKey.s)
             /\ probe.response.ok => probe.response.usedKey = "server"
        ELSE IF ClientKeySent(probe.body)
        THEN /\ AuthenticatedWith(probe.response, probe.body.apiKey.s)
             /\ probe.response.ok => probe.response.usedKey = "client"
        ELSE /\ probe.response.status = 400
             /\ probe.response.upstream = <<>>

\* The same for requests whose body is a JSON object
C26_ServerKeyPreferredParsed ==
    (probe.op = "health" /\ probe.pc = "done" /\ probe.body.parsed) =>
        C26_ServerKeyPreferred

(***************************************************************************)
(* Health checks of the page: checkVapiHealth and what starts it           *)
(***************************************************************************)
MaxChecks == 2

HEALTH_REQUEST == [url |-> "/api/vapi/health", method |-> "POST"]

VALIDATE_REQUEST == [url |-> "/api/vapi/call", method |-> "POST"]

\* checkVapiHealth up to `await fetch('/api/vapi/health', ...)`
StartCheck(h) ==
    IF h.apiKey = <<>> THEN h
    ELSE [h EXCEPT !.healthCheckStatus = "checking",
                   !.checks = Append(h.checks,
                                  [apiKey |-> h.apiKey, assistantId |-> h.assistantId,
                                   pc |-> "health", status |-> 0])]

\* What that part of checkVapiHealth logs and sends
StartCheckPage(h, p) ==
    IF h.apiKey = <<>> THEN Log(p, "API key required for health check", "error")
    ELSE [Log(p, "Using server-side health check to avoid CORS issues...", "info")
            EXCEPT !.sent = Append(p.sent, HEALTH_REQUEST)]

\* The effect on [apiKey, checkVapiHealth]: if (apiKey) checkVapiHealth()
AutoCheck(h) == IF h.apiKey = <<>> THEN h ELSE StartCheck(h)

AutoCheckPage(h, p) == IF h.apiKey = <<>> THEN p ELSE StartCheckPage(h, p)

\* The responses the page's fetch can get: the route's answer to the body
\* the closure built, or none when the fetch itself rejects (status 0).
PageHealthResponses(h, check) ==
    {HealthPOST(h.serverKey, HealthBody(TRUE, JString(check.apiKey)), u) :
        u \in UpstreamOutcomes} \cup {NoHealthResponse}

\* onChange of the API key field, or the mount effect loading a saved key;
\* the effect then runs with the new key.
SetApiKey ==
    /\ \E k \in {<<>>, KeyA, KeyB} :
         LET set == [health EXCEPT !.apiKey = k]
         IN /\ k # health.apiKey
            /\ k # <<>> => Len(health.checks) < MaxChecks
            /\ health' = AutoCheck(set)
            /\ page' = AutoCheckPage(set, page)
    /\ UNCHANGED <<env, store, now, nCalls, last, probe, inflight>>

\* onChange of the assistant ID field: checkVapiHealth is a new function
\* (its dependencies are [apiKey, assistantId, log]), so the effect runs.
SetAssistantId ==
    /\ \E a \in {<<>>, ASSISTANT} :
         LET set == [health EXCEPT !.assistantId = a]
         IN /\ a # health.assistantId
            /\ health.apiKey # <<>> => Len(health.checks) < MaxChecks
            /\ health' = AutoCheck(set)
            /\ page' = AutoCheckPage(set, page)
    /\ UNCHANGED <<env, store, now, nCalls, last, probe, inflight>>

\* The Check button: disabled={!apiKey || healthCheckStatus === 'checking'}
CheckClick ==
    /\ health.apiKey # <<>>
    /\ health.healthCheckStatus # "checking"
    /\ Len(health.checks) < MaxChecks
    /\ health' = StartCheck(health)
    /\ page' = StartCheckPage(health, page)
    /\ UNCHANGED <<env, store, now, nCalls, last, probe, inflight>>

\* The fetch of the health route settles: the result of the check is set,
\* and with an assistant ID the validation request is sent.
HealthFetchSettles ==
    /\ \E i \in 1..Len(health.checks) :
         /\ health.checks[i].pc = "health"
         /\ \E response \in PageHealthResponses(health, health.checks[i]) :
              LET validate == response.ok /\ health.checks[i].assistantId # <<>>
                  logged   == Log(page,
                                  IF response.ok THEN "VAPI API health check successful"
                                  ELSE "VAPI API health check failed",
                                  IF response.ok THEN "success" ELSE "error")
              IN /\ health' = [health EXCEPT
                                  !.healthCheckStatus = HealthStatusOf(response.ok),
                                  !.lastHealthCheck = now,
                                  !.checks[i].status = response.status,
                                  !.checks[i].pc = IF validate THEN "validate"
                                                   ELSE "done"]
                 /\ page' = IF validate
                            THEN [logged EXCEPT !.sent = Append(page.sent,
                                                              VALIDATE_REQUEST)]
                            ELSE logged
    /\ UNCHANGED <<env, store, now, nCalls, last, probe, inflight>>

\* The validation fetch settles; either way the check only logs.
ValidationSettles ==
    /\ \E i \in 1..Len(health.checks), ok \in BOOLEAN :
         /\ health.checks[i].pc = "validate"
         /\ health' = [health EXCEPT !.checks[i].pc = "done"]
         /\ page' = Log(page, IF ok THEN "Assistant ID validation successful"
                              ELSE "Assistant ID validation failed",
                        IF ok THEN "success" ELSE "error")
    /\ UNCHANGED <<env, store, now, nCalls, last, probe, inflight>>

NextHealth ==
    \/ SetApiKey
    \/ SetAssistantId
    \/ CheckClick
    \/ HealthFetchSettles
    \/ ValidationSettles

SpecHealth == InitHealthRoute /\ [][NextHealth]_vars

(***************************************************************************)
(* C27. A health check started with a non-empty API key leaves 'checking': *)
(* when its request to the health route settles the status becomes         *)
(* 'healthy' if the route answered with a success status and 'unhealthy'   *)
(* otherwise, and the status is 'checking' only while some check awaits    *)
(* the route. The assistant-ID validation that follows does not change the *)
(* status, whatever its result, and a change of the settings that leaves   *)
(* the API key empty starts no check and changes no health state.          *)
(***************************************************************************)
SuccessStatus(status) == status \in 200..299

AwaitingRoute(h) == {i \in 1..Len(h.checks) : h.checks[i].pc = "health"}

C27_HealthStatusFollowsRoute ==
    [][ /\ \A i \in 1..Len(health.checks) :
             /\ (health.checks[i].pc = "health" /\ health'.checks[i].pc # "health") =>
                    health'.healthCheckStatus =
                        IF SuccessStatus(health'.checks[i].status) THEN "healthy"
                        ELSE "unhealthy"
             /\ (health.checks[i].pc = "validate" /\ health'.checks[i].pc = "done") =>
                    /\ health'.healthCheckStatus = health.healthCheckStatus
                    /\ health'.lastHealthCheck = health.lastHealthCheck
        /\ Len(health'.checks) > Len(health.checks) =>
               /\ health'.apiKey # <<>>
               /\ health'.healthCheckStatus = "checking"
        /\ (/\ health'.apiKey = <<>>
            /\ <<health'.apiKey, health'.assistantId>> #
                  <<health.apiKey, health.assistantId>>) =>
               /\ health'.healthCheckStatus = health.healthCheckStatus
               /\ health'.lastHealthCheck = health.lastHealthCheck
               /\ health'.checks = health.checks
        /\ health'.healthCheckStatus = "checking" => AwaitingRoute(health') # {}
      ]_vars

C27_Witness ==
    /\ Len(health.checks) = 2
    /\ health.checks[1].pc = "done"
    /\ health.checks[1].status = 401
    /\ health.checks[2].pc = "done"
    /\ health.checks[2].status = 200
    /\ health.checks[2].assistantId # <<>>
    /\ page.log.message = "Assistant ID validation failed"
    /\ health.healthCheckStatus = "healthy"

(***************************************************************************)
(* C28. Once every health check that was started has its answer from the   *)
(* health route, the status shown is the result of the check started       *)
(* last, not that of an earlier one.                                       *)
(***************************************************************************)
C28_LatestCheckWins ==
    (health.checks # <<>> /\ AwaitingRoute(health) = {}) =>
        health.healthCheckStatus =
            IF SuccessStatus(health.checks[Len(health.checks)].status) THEN "healthy"
            ELSE "unhealthy"

(***************************************************************************)
(* C29. Under every configuration the segment route and the manifest       *)
(* route resolve the same bucket and the same credential source: a         *)
(* deployment that stores segments with one source stores the manifest     *)
(* with the same one.                                                      *)
(***************************************************************************)
C29_RoutesResolveAlike ==
    probe.op = "getBuckets" =>
        /\ probe.chunk.bucket = probe.manifest.bucket
        /\ probe.chunk.source = probe.manifest.source

\* The part of it that concerns the bucket
C29_SameBucket ==
    probe.op = "getBuckets" => probe.chunk.bucket = probe.manifest.bucket

(***************************************************************************)
(* C30. For a fixed mimeType the chunk key is injective over valid session *)
(* ids and non-negative integer indices: two chunks get the same key only  *)
(* if they have the same session id and the same index, also for indices   *)
(* of 1,000,000 and more. No chunk key is the manifest key of a valid      *)
(* session.                                                                *)
(***************************************************************************)
C30_ChunkKeysInjective ==
    probe.op = "keyPair" =>
        /\ probe.keyI = probe.keyJ =>
              (probe.sessionI = probe.sessionJ /\ probe.i = probe.j)
        /\ (probe.sessionI = probe.sessionJ /\ probe.i = probe.j) =>
              probe.keyI = probe.keyJ
        /\ probe.keyI # probe.manifestJ
        /\ probe.keyJ # probe.manifestJ

C30_Witness ==
    /\ probe.op = "keyPair"
    /\ probe.sessionI = GoodId
    /\ probe.sessionJ = PrefixId
    /\ probe.i = 1000000
    /\ probe.j = 0
    /\ probe.keyI # probe.keyJ
    /\ Len(probe.keyI) = Len(probe.keyJ)

====
